---- MODULE Spec2Model ----
(***************************************************************************)
(* pandera/dtypes.py: the PandasDtype enumeration, its alias lookups and   *)
(* its overridden equality and hash.                                       *)
(*                                                                         *)
(* A Python string object is modelled as a record [s, home]: s is its      *)
(* content (what == and dict lookup compare), home is where the object was *)
(* created (what `is` and id() tell apart).  String constants of the       *)
(* module are interned by the compiler, so two literals with the same      *)
(* content are one object; a string built at run time by str(...) is an    *)
(* object of its own.                                                      *)
(***************************************************************************)
EXTENDS Naturals, Sequences, FiniteSets, TLC

VARIABLES
    host,                        \* the host library's default widths, in bits
    PandasDtype,                 \* the enum: member name -> declared value
    _DEFAULT_PANDAS_INT_TYPE,    \* module global, set once at import
    _DEFAULT_PANDAS_FLOAT_TYPE,  \* module global, set once at import
    last,                        \* the call a single caller made last
    thr                          \* concurrent callers: one call record each

vars == <<host, PandasDtype, _DEFAULT_PANDAS_INT_TYPE, _DEFAULT_PANDAS_FLOAT_TYPE, last, thr>>

globals == <<PandasDtype, _DEFAULT_PANDAS_INT_TYPE, _DEFAULT_PANDAS_FLOAT_TYPE>>

----------------------------------------------------------------------------
(* String objects *)

\* a string constant of the module's code (interned)
Lit(s) == [s |-> s, home |-> "const"]

\* a string object handed in by a caller
Arg(s) == [s |-> s, home |-> "caller"]

\* id(obj): objects are the same iff created at the same place with the
\* same content
id(obj) == <<obj.home, obj.s>>

\* str.startswith
startswith(s, prefix) ==
    /\ Len(s) >= Len(prefix)
    /\ SubSeq(s, 1, Len(prefix)) = prefix

\* dict.get(key, default)
Get(d, key, default) == IF key \in DOMAIN d THEN d[key] ELSE default

None == "None"

----------------------------------------------------------------------------
(* Module initialisation *)

\* the widths a host may default to
Hosts == [int : {32, 64}, float : {32, 64}]

\* str(dtype) of a numpy dtype of the given kind and width, a new string object
dtype_str(kind, bits, home) ==
    [s |-> kind \o (IF bits = 64 THEN "64" ELSE IF bits = 32 THEN "32" ELSE "16"),
     home |-> home]

\* class PandasDtype(Enum): the declared members and values
PandasDtypeDecl ==
    [Bool      |-> Lit("bool"),
     DateTime  |-> Lit("datetime64[ns]"),
     Timedelta |-> Lit("timedelta64[ns]"),
     Category  |-> Lit("category"),
     Float     |-> Lit("float"),
     Float16   |-> Lit("float16"),
     Float32   |-> Lit("float32"),
     Float64   |-> Lit("float64"),
     Int       |-> Lit("int"),
     Int8      |-> Lit("int8"),
     Int16     |-> Lit("int16"),
     Int32     |-> Lit("int32"),
     Int64     |-> Lit("int64"),
     UInt8     |-> Lit("uint8"),
     UInt16    |-> Lit("uint16"),
     UInt32    |-> Lit("uint32"),
     UInt64    |-> Lit("uint64"),
     Object    |-> Lit("object"),
     String    |-> Lit("string")]

Members == DOMAIN PandasDtypeDecl

\* self.value
value(self) == PandasDtype[self]

----------------------------------------------------------------------------
(* The methods *)

\* str_alias without any substitution: the declared value
str_alias_declared_value(self) == value(self)

\* str_alias without the "string" entry
str_alias_string_kept(self) ==
    Get(("int" :> _DEFAULT_PANDAS_INT_TYPE)
            @@ ("float" :> _DEFAULT_PANDAS_FLOAT_TYPE),
        value(self).s, value(self))

str_alias(self) ==
    Get(("int" :> _DEFAULT_PANDAS_INT_TYPE)
            @@ ("float" :> _DEFAULT_PANDAS_FLOAT_TYPE)
            @@ ("string" :> Lit("object")),
        value(self).s, value(self))

\* the dict literal of from_str_alias
FromStrAliasTable ==
    ("bool" :> "Bool")
        @@ ("datetime64[ns]" :> "DateTime")
        @@ ("timedelta64[ns]" :> "Timedelta")
        @@ ("category" :> "Category")
        @@ ("float" :> "Float")
        @@ ("float16" :> "Float16")
        @@ ("float32" :> "Float32")
        @@ ("float64" :> "Float64")
        @@ ("int" :> "Int")
        @@ ("int8" :> "Int8")
        @@ ("int16" :> "Int16")
        @@ ("int32" :> "Int32")
        @@ ("int64" :> "Int64")
        @@ ("uint8" :> "UInt8")
        @@ ("uint16" :> "UInt16")
        @@ ("uint32" :> "UInt32")
        @@ ("uint64" :> "UInt64")
        @@ ("object" :> "Object")
        @@ ("string" :> "String")

\* from_str_alias subscripting the dict: a missing key raises
from_str_alias_subscript(alias) ==
    IF alias.s \in DOMAIN FromStrAliasTable
    THEN FromStrAliasTable[alias.s]
    ELSE "KeyError"

\* from_str_alias with String folded into Object
from_str_alias_string_as_object(alias) ==
    LET found == Get(FromStrAliasTable, alias.s, None)
    IN  IF found = "String" THEN "Object" ELSE found

from_str_alias(alias) == Get(FromStrAliasTable, alias.s, None)

\* the dict literal of from_pandas_api_type
FromPandasApiTypeTable ==
    ("string" :> "String")
        @@ ("floating" :> "Float")
        @@ ("integer" :> "Int")
        @@ ("categorical" :> "Category")
        @@ ("boolean" :> "Bool")
        @@ ("datetime64" :> "DateTime")
        @@ ("datetime" :> "DateTime")
        @@ ("timedelta64" :> "Timedelta")
        @@ ("timedelta" :> "Timedelta")

\* from_pandas_api_type matching "mixed" exactly instead of as a prefix
from_pandas_api_type_exact_mixed(pandas_api_type) ==
    IF pandas_api_type.s = "mixed"
    THEN "Object"
    ELSE Get(FromPandasApiTypeTable, pandas_api_type.s, None)

from_pandas_api_type(pandas_api_type) ==
    IF startswith(pandas_api_type.s, "mixed")
    THEN "Object"
    ELSE Get(FromPandasApiTypeTable, pandas_api_type.s, None)

\* __eq__ without the branch for "string"
eq_without_string_branch(self, other) ==
    IF other = None
    THEN FALSE
    ELSE str_alias(self).s = str_alias(other).s

\* __eq__ on the declared values, as the default Enum equality
eq_by_declared_value(self, other) ==
    IF other = None
    THEN FALSE
    ELSE value(self).s = value(other).s

__eq__(self, other) ==
    IF other = None
    THEN FALSE
    ELSE IF value(self).s = "string"
         THEN value(self).s = value(other).s
         ELSE str_alias(self).s = str_alias(other).s

__hash__(self) ==
    LET hash_obj ==
            IF self = "Int" THEN _DEFAULT_PANDAS_INT_TYPE
            ELSE IF self = "Float" THEN _DEFAULT_PANDAS_FLOAT_TYPE
            ELSE str_alias(self)
    IN  id(hash_obj)

----------------------------------------------------------------------------
(* Inputs *)

Prefixes == {"", "mixed", "mixe"}

Stems ==
    {PandasDtypeDecl[m].s : m \in Members}
        \cup DOMAIN FromPandasApiTypeTable
        \cup {"", "-integer", "-integer-float", "unknown", "not-a-real-dtype", "Int64"}

\* the strings callers pass to the two lookups
Inputs == {Arg(p \o t) : p \in Prefixes, t \in Stems}

NoCall == [op |-> "none", self |-> None, other |-> None, arg |-> None, result |-> None]

Call(op, self, other, arg, result) ==
    [op |-> op, self |-> self, other |-> other, arg |-> arg, result |-> result]

\* number of concurrent callers
NumCallers == 2

Threads == 1..NumCallers

\* what the concurrent callers pass
ConcMembers == {"Int", "Int64", "String", "Object"}

ConcInputs == {Arg("int64"), Arg("integer"), Arg("mixed-integer")}

\* a caller between two calls
Idle ==
    [pc |-> "idle", op |-> "none", self |-> None, other |-> None, arg |-> None,
     tmp |-> None, result |-> None]

\* a caller whose call has returned result
Done(op, self, other, arg, result) ==
    [pc |-> "done", op |-> op, self |-> self, other |-> other, arg |-> arg,
     tmp |-> None, result |-> result]

----------------------------------------------------------------------------
(* One caller: every call is one step *)

Init ==
    /\ host \in Hosts
    /\ PandasDtype = PandasDtypeDecl
    /\ _DEFAULT_PANDAS_INT_TYPE = dtype_str("int", host.int, "import_int")
    /\ _DEFAULT_PANDAS_FLOAT_TYPE = dtype_str("float", host.float, "import_float")
    /\ last = NoCall
    /\ thr = [t \in Threads |-> Idle]

CallStrAlias ==
    \E self \in Members :
        /\ last' = Call("str_alias", self, None, None, str_alias(self))
        /\ UNCHANGED <<host, globals, thr>>

CallFromStrAlias ==
    \E a \in Inputs :
        /\ last' = Call("from_str_alias", None, None, a, from_str_alias(a))
        /\ UNCHANGED <<host, globals, thr>>

CallFromPandasApiType ==
    \E a \in Inputs :
        /\ last' = Call("from_pandas_api_type", None, None, a, from_pandas_api_type(a))
        /\ UNCHANGED <<host, globals, thr>>

CallEq ==
    \E self \in Members, other \in Members \cup {None} :
        /\ last' = Call("__eq__", self, other, None, __eq__(self, other))
        /\ UNCHANGED <<host, globals, thr>>

CallHash ==
    \E self \in Members :
        /\ last' = Call("__hash__", self, None, None, __hash__(self))
        /\ UNCHANGED <<host, globals, thr>>

Next ==
    \/ CallStrAlias
    \/ CallFromStrAlias
    \/ CallFromPandasApiType
    \/ CallEq
    \/ CallHash

Spec == Init /\ [][Next]_vars

----------------------------------------------------------------------------
(* Several callers.  A call that reads the module globals once is one     *)
(* step; __eq__ evaluates self.str_alias and then other.str_alias, and    *)
(* another caller may run between the two.                                *)

\* str_alias that stores the alias it resolved in the cached int default
ThreadStrAlias_storing(t) ==
    /\ thr[t].pc = "idle"
    /\ \E self \in ConcMembers :
           /\ thr' = [thr EXCEPT ![t] =
                         Done("str_alias", self, None, None, str_alias(self))]
           /\ _DEFAULT_PANDAS_INT_TYPE' = str_alias(self)
    /\ UNCHANGED <<host, PandasDtype, _DEFAULT_PANDAS_FLOAT_TYPE, last>>

ThreadStrAlias(t) ==
    /\ thr[t].pc = "idle"
    /\ \E self \in ConcMembers :
           thr' = [thr EXCEPT ![t] = Done("str_alias", self, None, None, str_alias(self))]
    /\ UNCHANGED <<host, globals, last>>

ThreadFromStrAlias(t) ==
    /\ thr[t].pc = "idle"
    /\ \E a \in ConcInputs :
           thr' = [thr EXCEPT ![t] = Done("from_str_alias", None, None, a, from_str_alias(a))]
    /\ UNCHANGED <<host, globals, last>>

ThreadFromPandasApiType(t) ==
    /\ thr[t].pc = "idle"
    /\ \E a \in ConcInputs :
           thr' = [thr EXCEPT ![t] =
                      Done("from_pandas_api_type", None, None, a, from_pandas_api_type(a))]
    /\ UNCHANGED <<host, globals, last>>

ThreadHash(t) ==
    /\ thr[t].pc = "idle"
    /\ \E self \in ConcMembers :
           thr' = [thr EXCEPT ![t] = Done("__hash__", self, None, None, __hash__(self))]
    /\ UNCHANGED <<host, globals, last>>

\* __eq__ up to and including the evaluation of self.str_alias
ThreadEqSelf(t) ==
    /\ thr[t].pc = "idle"
    /\ \E self \in ConcMembers, other \in ConcMembers \cup {None} :
           thr' = [thr EXCEPT ![t] =
                      IF other = None
                      THEN Done("__eq__", self, other, None, FALSE)
                      ELSE IF value(self).s = "string"
                           THEN Done("__eq__", self, other, None,
                                     value(self).s = value(other).s)
                           ELSE [pc |-> "eq_other", op |-> "__eq__", self |-> self,
                                 other |-> other, arg |-> None,
                                 tmp |-> str_alias(self), result |-> None]]
    /\ UNCHANGED <<host, globals, last>>

\* __eq__ from the evaluation of other.str_alias to the return
ThreadEqOther(t) ==
    /\ thr[t].pc = "eq_other"
    /\ thr' = [thr EXCEPT ![t] =
                  Done("__eq__", thr[t].self, thr[t].other, None,
                       thr[t].tmp.s = str_alias(thr[t].other).s)]
    /\ UNCHANGED <<host, globals, last>>

\* the caller takes the result and is free for its next call
ThreadReturn(t) ==
    /\ thr[t].pc = "done"
    /\ thr' = [thr EXCEPT ![t] = Idle]
    /\ UNCHANGED <<host, globals, last>>

NextConc ==
    \E t \in Threads :
        \/ ThreadStrAlias(t)
        \/ ThreadFromStrAlias(t)
        \/ ThreadFromPandasApiType(t)
        \/ ThreadHash(t)
        \/ ThreadEqSelf(t)
        \/ ThreadEqOther(t)
        \/ ThreadReturn(t)

SpecConc == Init /\ [][NextConc]_vars

----------------------------------------------------------------------------
(* Properties.  Those about one call are stated of the call recorded in   *)
(* last, under Spec; the one about concurrent callers is stated of thr,   *)
(* under SpecConc.                                                        *)

\* the sized variants the host's defaults name
HostInt == IF host.int = 64 THEN "Int64" ELSE "Int32"

HostFloat == IF host.float = 64 THEN "Float64" ELSE "Float32"

\* s begins with "mixed": it is "mixed" followed by the rest of s
BeginsWithMixed(s) == Len(s) >= 5 /\ s = "mixed" \o SubSeq(s, 6, Len(s))

\* C1: a == b is true exactly when b is not None and, if a's declared value
\* is "string", b's declared value is "string", otherwise the str_alias of a
\* and of b have the same content; so Int == Int is true, Int == Float and
\* String == Object are false, and a == None is false for every a.
C1_EqDefinition ==
    last.op = "__eq__" =>
        /\ last.result \in BOOLEAN
        /\ last.result =
              (/\ last.other # None
               /\ IF PandasDtypeDecl[last.self].s = "string"
                  THEN PandasDtypeDecl[last.other].s = "string"
                  ELSE str_alias(last.self).s = str_alias(last.other).s)
        /\ (last.self = "Int" /\ last.other = "Int" => last.result = TRUE)
        /\ (last.self = "Int" /\ last.other = "Float" => last.result = FALSE)
        /\ (last.self = "String" /\ last.other = "Object" => last.result = FALSE)
        /\ (last.other = None => last.result = FALSE)

C1_Witness ==
    /\ last.op = "__eq__"
    /\ last.self = "String"
    /\ last.other = "Object"
    /\ last.result = FALSE

\* C2: hash is consistent with equality: whenever a == b is true,
\* __hash__(a) = __hash__(b).
C2_HashConsistentWithEq ==
    (last.op = "__eq__" /\ last.result = TRUE) =>
        __hash__(last.self) = __hash__(last.other)

\* C3: from_str_alias(str_alias(v)) is a variant w with the same str_alias
\* as v; for Int and Float w is the sized variant of the host's default and
\* not Int or Float itself, and for String w is Object.
C3_RoundTrip ==
    last.op = "str_alias" =>
        LET w == from_str_alias(last.result)
        IN  /\ w \in Members
            /\ str_alias(w).s = last.result.s
            /\ (last.self = "Int" => w = HostInt /\ w # "Int")
            /\ (last.self = "Float" => w = HostFloat /\ w # "Float")
            /\ (last.self = "String" => w = "Object")

C3_Witness ==
    /\ last.op = "str_alias"
    /\ last.self = "Int"
    /\ host.int = 32
    /\ from_str_alias(last.result) = "Int32"

\* C4: str_alias is defined for each of the 19 variants: the cached default
\* int string for Int ("int64" on a 64-bit host, "int32" on a 32-bit one),
\* the cached default float string for Float, "object" for String and the
\* declared value for each of the other 16.
C4_StrAliasTotal ==
    /\ Cardinality(Members) = 19
    /\ Cardinality(Members \ {"Int", "Float", "String"}) = 16
    /\ last.op = "str_alias" =>
          /\ last.self \in Members
          /\ DOMAIN last.result = {"s", "home"}
          /\ last.result =
                (CASE last.self = "Int" -> _DEFAULT_PANDAS_INT_TYPE
                   [] last.self = "Float" -> _DEFAULT_PANDAS_FLOAT_TYPE
                   [] last.self = "String" -> Lit("object")
                   [] OTHER -> PandasDtypeDecl[last.self])
          /\ (last.self = "Int" =>
                last.result.s = (IF host.int = 64 THEN "int64" ELSE "int32"))
          /\ (last.self = "Float" =>
                last.result.s = (IF host.float = 64 THEN "float64" ELSE "float32"))

C4_Witness ==
    /\ last.op = "str_alias"
    /\ last.self = "Int"
    /\ host.int = 64
    /\ last.result.s = "int64"

\* C5: from_pandas_api_type(s) is Object when s begins with "mixed",
\* otherwise the table entry when s is one of the nine keys, otherwise None.
C5_FromPandasApiType ==
    last.op = "from_pandas_api_type" =>
        LET s == last.arg.s
        IN  last.result =
               (CASE BeginsWithMixed(s) -> "Object"
                  [] ~BeginsWithMixed(s) /\ s = "string" -> "String"
                  [] ~BeginsWithMixed(s) /\ s = "floating" -> "Float"
                  [] ~BeginsWithMixed(s) /\ s = "integer" -> "Int"
                  [] ~BeginsWithMixed(s) /\ s = "categorical" -> "Category"
                  [] ~BeginsWithMixed(s) /\ s = "boolean" -> "Bool"
                  [] ~BeginsWithMixed(s) /\ s \in {"datetime64", "datetime"} -> "DateTime"
                  [] ~BeginsWithMixed(s) /\ s \in {"timedelta64", "timedelta"} -> "Timedelta"
                  [] OTHER -> None)

C5_Witness ==
    /\ last.op = "from_pandas_api_type"
    /\ last.arg.s = "mixed-integer-float"
    /\ last.result = "Object"

\* C6: from_str_alias and from_pandas_api_type end, for every string, in a
\* variant or in None and in nothing else, and in None for every string that
\* is no table key (and, for from_pandas_api_type, does not begin with
\* "mixed").
C6_LookupsTotal ==
    /\ last.op = "from_str_alias" =>
          /\ last.result \in Members \cup {None}
          /\ (last.arg.s \notin {PandasDtypeDecl[m].s : m \in Members} =>
                last.result = None)
    /\ last.op = "from_pandas_api_type" =>
          /\ last.result \in Members \cup {None}
          /\ (/\ ~BeginsWithMixed(last.arg.s)
              /\ last.arg.s \notin {"string", "floating", "integer", "categorical",
                                    "boolean", "datetime64", "datetime",
                                    "timedelta64", "timedelta"}
              => last.result = None)

C6_Witness ==
    /\ last.op = "from_str_alias"
    /\ last.arg.s = "not-a-real-dtype"
    /\ last.result = None

\* C7: Int == V and V == Int are true for the sized variant V the host
\* defaults to, and Int == W is false for every other variant W but Int;
\* the same for Float.
C7_GenericEqualsHostDefault ==
    (last.op = "__eq__" /\ last.other # None) =>
        /\ (last.self = "Int" => last.result = (last.other \in {"Int", HostInt}))
        /\ (last.self = HostInt /\ last.other = "Int" => last.result = TRUE)
        /\ (last.self = "Float" => last.result = (last.other \in {"Float", HostFloat}))
        /\ (last.self = HostFloat /\ last.other = "Float" => last.result = TRUE)

C7_Witness ==
    /\ last.op = "__eq__"
    /\ last.self = "Int64"
    /\ last.other = "Int"
    /\ host.int = 64
    /\ last.result = TRUE

\* C8: the 19 declared values are pairwise distinct, they are exactly the
\* keys of the from_str_alias table, and from_str_alias of the declared
\* value of v is v itself; so "string" gives String and "int" gives Int.
C8_FromStrAliasInvertsValue ==
    /\ Cardinality({value(m).s : m \in Members}) = 19
    /\ DOMAIN FromStrAliasTable = {value(m).s : m \in Members}
    /\ last.op = "from_str_alias" =>
          /\ \A v \in Members : last.arg.s = value(v).s => last.result = v
          /\ (last.arg.s = "string" => last.result = "String")
          /\ (last.arg.s = "int" => last.result = "Int")

C8_Witness ==
    /\ last.op = "from_str_alias"
    /\ last.arg.s = "string"
    /\ last.result = "String"
    /\ str_alias("String").s = "object"

\* what a call returns when made alone, in one step
Alone(c) ==
    CASE c.op = "str_alias" -> str_alias(c.self)
      [] c.op = "from_str_alias" -> from_str_alias(c.arg)
      [] c.op = "from_pandas_api_type" -> from_pandas_api_type(c.arg)
      [] c.op = "__eq__" -> __eq__(c.self, c.other)
      [] c.op = "__hash__" -> __hash__(c.self)

\* C9: no operation changes the cached defaults or the enum; they stay as
\* the import set them, and every call of every concurrent caller returns
\* what the same call returns when made alone.
C9_NoMutationAfterImport ==
    /\ [][UNCHANGED globals]_vars
    /\ [](/\ PandasDtype = PandasDtypeDecl
          /\ _DEFAULT_PANDAS_INT_TYPE = dtype_str("int", host.int, "import_int")
          /\ _DEFAULT_PANDAS_FLOAT_TYPE = dtype_str("float", host.float, "import_float")
          /\ \A t \in Threads : thr[t].pc = "done" => thr[t].result = Alone(thr[t]))

C9_Witness ==
    /\ thr[1].pc = "done"
    /\ thr[1].op = "__eq__"
    /\ thr[1].self = "Int"
    /\ thr[1].other = "Int64"
    /\ \E t \in Threads : thr[t].pc = "eq_other"

\* C10: equality is symmetric: a == b and b == a give the same answer.
C10_EqSymmetric ==
    (last.op = "__eq__" /\ last.other # None) =>
        last.result = __eq__(last.other, last.self)

====
